---- MODULE Spec2Model ----
(***************************************************************************)
(* Model of the HLL union benchmark analysis script (src/union_plot.py):   *)
(* load the two raw trial tables, aggregate each by its group key, join    *)
(* them on num_days, derive the comparison metrics, persist the table,     *)
(* hand it to the charts and print the summary.                            *)
(*                                                                         *)
(* Floating point values are modelled as exact rationals extended with     *)
(* +inf and NaN, with the division rules numpy applies to float64 columns  *)
(* (x/0 = inf for x > 0, 0/0 = NaN).  All raw measurements are            *)
(* non-negative, so -inf never arises.  Rounding is not modelled.          *)
(*                                                                         *)
(* The two other scripts of the repository are modelled as far as their    *)
(* handling of input files goes: src/plot_results_cardinality.py (main:    *)
(* read two CSV files or return) and src/plot_results.py (load_data,       *)
(* parse_pgbench_summary, the guards of the plot functions and main).      *)
(* Each specification runs one script; the variables of the others keep    *)
(* their idle values.                                                      *)
(***************************************************************************)
EXTENDS Integers, Sequences, FiniteSets, TLC

VARIABLES
    union_exists,     \* tables/hll_union/union_detailed.csv is present
    exact_exists,     \* tables/hll_union/exact_detailed.csv is present
    union_csv,        \* rows of union_detailed.csv, in file order
    exact_csv,        \* rows of exact_detailed.csv, in file order
    pc,               \* position of the script
    union_df,         \* loaded approximate trials
    exact_df,         \* loaded exact trials
    union_stats,      \* aggregated approximate table
    exact_stats,      \* aggregated exact table
    comparison_df,    \* joined table with derived metrics
    comparison_csv,   \* text cells written to tables/hll_union/comparison.csv
    efficiency_plot,  \* the series handed to the efficiency chart (plot 4d)
    best_speed,       \* rows selected by the summary (<<>> until selected)
    best_accuracy,
    best_efficiency,
    log,              \* messages printed so far
    \* src/plot_results_cardinality.py
    card_exact_exists,  \* tables/<prefix>_exact.csv is present
    card_hll_exists,    \* tables/<prefix>_hll.csv is present
    card_exact_df,      \* exact_df of main(): where its rows came from
    card_hll_df,        \* hll_df of main(): where its rows came from
    card_outputs,       \* figures and tables written so far
    \* src/plot_results.py
    input_dir_exists,   \* the directory given on the command line exists
    csv_files,          \* the four result CSV files of the directory
    summary_files,      \* the four pgbench summary files of the directory
    df_bulk_exact,      \* what load_data returned for each CSV file
    df_bulk_hll,
    df_storage,
    df_hashing,
    pgbench_results,    \* test name -> parsed figures
    plots_saved,        \* PNG files written so far
    printed             \* warnings and messages of plot_results.py

vars == <<union_exists, exact_exists, union_csv, exact_csv, pc, union_df,
          exact_df, union_stats, exact_stats, comparison_df, comparison_csv,
          efficiency_plot, best_speed, best_accuracy, best_efficiency, log,
          card_exact_exists, card_hll_exists, card_exact_df, card_hll_df,
          card_outputs, input_dir_exists, csv_files, summary_files,
          df_bulk_exact, df_bulk_hll, df_storage, df_hashing, pgbench_results,
          plots_saved, printed>>

\* the state of the two other scripts, which union_plot.py never touches
cardVars == <<card_exact_exists, card_hll_exists, card_exact_df, card_hll_df,
              card_outputs>>
resultsVars == <<input_dir_exists, csv_files, summary_files, df_bulk_exact,
                 df_bulk_hll, df_storage, df_hashing, pgbench_results,
                 plots_saved, printed>>

----------------------------------------------------------------------------
(* Bounds of the model and the raw values the trials are drawn from.       *)

MaxUnionTrials == 2
MaxExactTrials == 2

Precisions == {10, 12}
Days == {7, 30}

\* (estimated_count, query_time_ms, total_sketch_size_bytes) of one approximate
\* trial: an ordinary trial, one with a zero estimate, and one with zero
\* latency and a larger sketch.
UnionMeasurements ==
    {[estimated_count |-> 2, query_time_ms |-> 1, total_sketch_size_bytes |-> 1024],
     [estimated_count |-> 0, query_time_ms |-> 1, total_sketch_size_bytes |-> 1024],
     [estimated_count |-> 2, query_time_ms |-> 0, total_sketch_size_bytes |-> 2048]}

\* (exact_count, query_time_ms) of one exact trial: an ordinary trial and one
\* with a zero count and zero latency.
ExactMeasurements ==
    {[exact_count |-> 2, query_time_ms |-> 2],
     [exact_count |-> 0, query_time_ms |-> 0]}

UnionRows ==
    {[precision |-> p, num_days |-> n] @@ m :
        p \in Precisions, n \in Days, m \in UnionMeasurements}

ExactRows == {[num_days |-> n] @@ m : n \in Days, m \in ExactMeasurements}

SeqsUpTo(S, n) == UNION {[1..m -> S] : m \in 0..n}

----------------------------------------------------------------------------
(* float64 values: a finite rational n/d in lowest terms, +inf, or NaN.    *)

RECURSIVE GCD(_, _)
GCD(a, b) == IF b = 0 THEN a ELSE GCD(b, a % b)

AbsInt(n) == IF n < 0 THEN -n ELSE n

NaN == [k |-> "nan", n |-> 0, d |-> 1]
Inf == [k |-> "inf", n |-> 0, d |-> 1]

Fin(n, d) ==
    LET g == GCD(AbsInt(n), d)
    IN  [k |-> "fin", n |-> n \div g, d |-> d \div g]

F(i) == Fin(i, 1)

IsNaN(x) == x.k = "nan"
IsInf(x) == x.k = "inf"
IsFin(x) == x.k = "fin"

FAdd(x, y) ==
    IF IsNaN(x) \/ IsNaN(y) THEN NaN
    ELSE IF IsInf(x) \/ IsInf(y) THEN Inf
    ELSE Fin(x.n * y.d + y.n * x.d, x.d * y.d)

FSub(x, y) ==
    IF IsNaN(x) \/ IsNaN(y) THEN NaN
    ELSE IF IsInf(x) /\ IsInf(y) THEN NaN
    ELSE IF IsInf(x) \/ IsInf(y) THEN Inf
    ELSE Fin(x.n * y.d - y.n * x.d, x.d * y.d)

FAbs(x) == IF IsFin(x) THEN Fin(AbsInt(x.n), x.d) ELSE x

FMul(x, y) ==
    IF IsNaN(x) \/ IsNaN(y) THEN NaN
    ELSE IF IsInf(x) \/ IsInf(y)
         THEN IF (IsFin(x) /\ x.n = 0) \/ (IsFin(y) /\ y.n = 0) THEN NaN ELSE Inf
    ELSE Fin(x.n * y.n, x.d * y.d)

FDiv(x, y) ==
    IF IsNaN(x) \/ IsNaN(y) THEN NaN
    ELSE IF IsInf(x) THEN (IF IsInf(y) THEN NaN ELSE Inf)
    ELSE IF IsInf(y) THEN F(0)
    ELSE IF y.n = 0 THEN (IF x.n = 0 THEN NaN ELSE Inf)
    ELSE Fin(x.n * y.d, x.d * y.n)

\* x < y on non-NaN values
FLess(x, y) ==
    IF IsInf(x) THEN FALSE
    ELSE IF IsInf(y) THEN TRUE
    ELSE x.n * y.d < y.n * x.d

----------------------------------------------------------------------------
(* Column reductions of pandas.                                            *)

RECURSIVE SumSeq(_)
SumSeq(s) == IF s = <<>> THEN F(0) ELSE FAdd(Head(s), SumSeq(Tail(s)))

Column(df, c) == [i \in 1..Len(df) |-> df[i][c]]

\* Series.mean of a non-empty group
Mean(s) == FDiv(SumSeq(s), F(Len(s)))

\* Series.std, ddof = 1: NaN for a group of one, else the square root of
\* the sample variance.  The root is kept symbolic: [k |-> "sqrt"] of n/d.
SqrtOf(v) == [k |-> "sqrt", n |-> v.n, d |-> v.d]

SqDev(s) ==
    LET m == Mean(s)
    IN  [i \in 1..Len(s) |-> FMul(FSub(s[i], m), FSub(s[i], m))]

\* population standard deviation (ddof = 0)
Std_Population(s) == SqrtOf(FDiv(SumSeq(SqDev(s)), F(Len(s))))

Std(s) ==
    IF Len(s) < 2 THEN NaN
    ELSE SqrtOf(FDiv(SumSeq(SqDev(s)), F(Len(s) - 1)))

\* 'first' instead of 'max'
MaxSeq_First(s) == s[1]

RECURSIVE MaxSeq(_)
MaxSeq(s) ==
    IF Len(s) = 1 THEN s[1]
    ELSE LET m == MaxSeq(Tail(s)) IN IF FLess(s[1], m) THEN m ELSE s[1]

FloatCol(df, c) == [i \in 1..Len(df) |-> F(df[i][c])]

----------------------------------------------------------------------------
(* groupby(..., as_index=False).agg(...): one row per distinct key, keys   *)
(* in ascending order (sort=True is the default).                          *)

KeyLess(a, b) ==
    \/ a[1] < b[1]
    \/ a[1] = b[1] /\ a[2] < b[2]

RECURSIVE SortKeys(_)
SortKeys(K) ==
    IF K = {} THEN <<>>
    ELSE LET m == CHOOSE a \in K : \A b \in K \ {a} : KeyLess(a, b)
         IN  <<m>> \o SortKeys(K \ {m})

\* the approximate trials grouped by precision alone
UnionKey_PrecisionOnly(r) == <<r.precision, 0>>

\* the exact trials grouped by window and query time
ExactKey_WithTime(r) == <<r.num_days, r.query_time_ms>>

UnionKey(r) == <<r.precision, r.num_days>>
ExactKey(r) == <<r.num_days, 0>>

UnionGroup(df, key) == SelectSeq(df, LAMBDA r : UnionKey(r) = key)
ExactGroup(df, key) == SelectSeq(df, LAMBDA r : ExactKey(r) = key)

AggregateUnionStats(df) ==
    LET keys == SortKeys({UnionKey(df[i]) : i \in 1..Len(df)})
    IN  [j \in 1..Len(keys) |->
            LET g == UnionGroup(df, keys[j])
            IN  [precision |-> keys[j][1],
                 num_days |-> keys[j][2],
                 avg_estimate |-> Mean(FloatCol(g, "estimated_count")),
                 union_time_ms |-> Mean(FloatCol(g, "query_time_ms")),
                 union_stddev_ms |-> Std(FloatCol(g, "query_time_ms")),
                 total_sketch_bytes |->
                     MaxSeq(FloatCol(g, "total_sketch_size_bytes"))]]

AggregateExactStats(df) ==
    LET keys == SortKeys({ExactKey(df[i]) : i \in 1..Len(df)})
    IN  [j \in 1..Len(keys) |->
            LET g == ExactGroup(df, keys[j])
            IN  [num_days |-> keys[j][1],
                 exact_count |-> Mean(FloatCol(g, "exact_count")),
                 exact_time_ms |-> Mean(FloatCol(g, "query_time_ms")),
                 exact_stddev_ms |-> Std(FloatCol(g, "query_time_ms"))]]

----------------------------------------------------------------------------
(* union_stats.merge(exact_stats, on='num_days'): inner join, one output   *)
(* row per pair of rows with equal num_days, in the order of the left rows.*)

\* how='left': approximate rows without an exact partner are kept
RECURSIVE Merge_LeftJoin(_, _)
Merge_LeftJoin(left, right) ==
    IF left = <<>> THEN <<>>
    ELSE LET l == Head(left)
             m == SelectSeq(right, LAMBDA r : r.num_days = l.num_days)
             rows == IF m = <<>>
                     THEN <<l @@ [exact_count |-> NaN, exact_time_ms |-> NaN,
                                  exact_stddev_ms |-> NaN]>>
                     ELSE [j \in 1..Len(m) |-> l @@ m[j]]
         IN  rows \o Merge_LeftJoin(Tail(left), right)

\* the joined rows in the order of the exact table's keys
RECURSIVE Merge_ByRightKeys(_, _)
Merge_ByRightKeys(left, right) ==
    IF right = <<>> THEN <<>>
    ELSE LET e == Head(right)
             m == SelectSeq(left, LAMBDA l : l.num_days = e.num_days)
         IN  [j \in 1..Len(m) |-> m[j] @@ e] \o Merge_ByRightKeys(left, Tail(right))

\* every approximate row paired with the first exact row, whatever its window
Merge_FirstExact(left, right) ==
    IF right = <<>> THEN <<>>
    ELSE [j \in 1..Len(left) |-> left[j] @@ right[1]]

RECURSIVE Merge(_, _)
Merge(left, right) ==
    IF left = <<>> THEN <<>>
    ELSE LET l == Head(left)
             m == SelectSeq(right, LAMBDA r : r.num_days = l.num_days)
         IN  [j \in 1..Len(m) |-> l @@ m[j]] \o Merge(Tail(left), right)

KB == 1024
Percent == 100

\* lines 58-64: the derived columns of one joined row
DeriveMetrics(r) ==
    LET error_absolute == FAbs(FSub(r.avg_estimate, r.exact_count))
        error_pct == FMul(FDiv(error_absolute, r.exact_count), F(Percent))
        speedup_factor == FDiv(r.exact_time_ms, r.union_time_ms)
    IN  r @@ [error_absolute |-> error_absolute,
              error_pct |-> error_pct,
              speedup_factor |-> speedup_factor,
              sketch_size_kb |-> FDiv(r.total_sketch_bytes, F(KB)),
              efficiency_score |-> FDiv(speedup_factor, error_pct)]

ComparisonTable(ustats, estats) ==
    LET joined == Merge(ustats, estats)
    IN  [i \in 1..Len(joined) |-> DeriveMetrics(joined[i])]

----------------------------------------------------------------------------
(* DataFrame.to_csv(index=False): every float cell becomes text; NaN is    *)
(* written as the empty string, infinity as "inf", a finite value as its   *)
(* decimal representation (kept here as the rational it denotes).          *)

CsvCell(x) ==
    IF IsNaN(x) THEN [text |-> "", n |-> 0, d |-> 1]
    ELSE IF IsInf(x) THEN [text |-> "inf", n |-> 0, d |-> 1]
    ELSE [text |-> IF x.k = "sqrt" THEN "sqrt" ELSE "decimal", n |-> x.n, d |-> x.d]

FloatColumns ==
    {"avg_estimate", "union_time_ms", "union_stddev_ms", "total_sketch_bytes",
     "exact_count", "exact_time_ms", "exact_stddev_ms", "error_absolute",
     "error_pct", "speedup_factor", "sketch_size_kb", "efficiency_score"}

ToCsv(df) ==
    [i \in 1..Len(df) |->
        [c \in DOMAIN df[i] |->
            IF c \in FloatColumns THEN CsvCell(df[i][c]) ELSE df[i][c]]]

----------------------------------------------------------------------------
(* Reductions of the summary: NaN cells are skipped (skipna=True).         *)

NotNaIdx(df, c) == {i \in 1..Len(df) : ~IsNaN(df[i][c])}

\* Series.idxmax / idxmin: the first position holding the extreme value
\* the last position holding the maximum
IdxMax_Last(df, c) ==
    CHOOSE i \in NotNaIdx(df, c) :
        /\ \A j \in NotNaIdx(df, c) : ~FLess(df[i][c], df[j][c])
        /\ \A j \in NotNaIdx(df, c) : j > i => FLess(df[j][c], df[i][c])

IdxMax(df, c) ==
    CHOOSE i \in NotNaIdx(df, c) :
        /\ \A j \in NotNaIdx(df, c) : ~FLess(df[i][c], df[j][c])
        /\ \A j \in NotNaIdx(df, c) : j < i => FLess(df[j][c], df[i][c])

IdxMin(df, c) ==
    CHOOSE i \in NotNaIdx(df, c) :
        /\ \A j \in NotNaIdx(df, c) : ~FLess(df[j][c], df[i][c])
        /\ \A j \in NotNaIdx(df, c) : j < i => FLess(df[i][c], df[j][c])

\* Series.max / min / mean of a column; NaN when no cell is left
ColMax(df, c) == IF NotNaIdx(df, c) = {} THEN NaN ELSE df[IdxMax(df, c)][c]
ColMin(df, c) == IF NotNaIdx(df, c) = {} THEN NaN ELSE df[IdxMin(df, c)][c]

ColMean(df, c) ==
    LET kept == SelectSeq(Column(df, c), LAMBDA x : ~IsNaN(x))
    IN  IF kept = <<>> THEN NaN ELSE Mean(kept)

\* line 217
precisions == <<10, 12, 14>>

\* sort_values('num_days') of the rows of one precision (stable)
RECURSIVE SortByDays(_)
SortByDays(rows) ==
    IF rows = <<>> THEN <<>>
    ELSE LET lo == CHOOSE i \in 1..Len(rows) :
                       /\ \A j \in 1..Len(rows) : rows[i].num_days <= rows[j].num_days
                       /\ \A j \in 1..(i - 1) : rows[j].num_days > rows[i].num_days
             rest == [j \in 1..(Len(rows) - 1) |->
                         IF j < lo THEN rows[j] ELSE rows[j + 1]]
         IN  <<rows[lo]>> \o SortByDays(rest)

\* lines 338-341: the (num_days, efficiency_score) series drawn per precision
EfficiencySeries(df) ==
    [k \in 1..Len(precisions) |->
        LET data == SortByDays(SelectSeq(df, LAMBDA r : r.precision = precisions[k]))
        IN  [i \in 1..Len(data) |->
                [num_days |-> data[i].num_days,
                 efficiency_score |-> data[i].efficiency_score]]]

----------------------------------------------------------------------------
(* Inputs and values of the two other analysis scripts,                    *)
(* src/plot_results_cardinality.py and src/plot_results.py.                *)

\* A variable of a script that holds no table: Python's None.
None == [is_none |-> TRUE, origin |-> "none", lines |-> <<>>]

\* pd.read_csv(path) of a file that is present and parses: every data line
\* of the file is a row of the table.
DataFrame(lines) == [is_none |-> FALSE, origin |-> "file", lines |-> lines]

\* create_sample_data(): two synthetic tables built from a fixed random seed.
create_sample_data ==
    [exact_df |-> [is_none |-> FALSE, origin |-> "sample", lines |-> <<"ok">>],
     hll_df |-> [is_none |-> FALSE, origin |-> "sample", lines |-> <<"ok">>]]

CardinalityIdle ==
    /\ card_exact_exists = FALSE
    /\ card_hll_exists = FALSE
    /\ card_exact_df = None
    /\ card_hll_df = None
    /\ card_outputs = {}

\* The CSV files plot_results.py reads, in the order main() loads them.
CsvNames ==
    {"01_results_bulk_exact.csv", "01_results_bulk_hll.csv",
     "02_results_storage.csv", "03_results_hashing.csv"}

\* A data line of a CSV file is "ok" (as many fields as the header, numbers
\* where numbers are expected), "text" (as many fields as the header, a
\* numeric field that is not a number) or "ragged" (more fields than the
\* header).
MissingCsv == [exists |-> FALSE, lines |-> <<>>]
WellFormedCsv == [exists |-> TRUE, lines |-> <<"ok", "ok">>]
TextFieldCsv == [exists |-> TRUE, lines |-> <<"ok", "text">>]
RaggedCsv == [exists |-> TRUE, lines |-> <<"ok", "ragged">>]

\* test_files of main(): pgbench test name -> summary file
test_files ==
    [low_card_insert |-> "04_summary_low_card_insert.txt",
     high_card_insert |-> "05_summary_high_card_insert.txt",
     read_cardinality |-> "06_summary_read_cardinality.txt",
     read_union |-> "07_summary_read_union.txt"]

TestNames == DOMAIN test_files
SummaryNames == {test_files[t] : t \in TestNames}

\* The two lines of a pgbench summary the script looks for.  The tps line
\* reads "tps = 1500.25 (excluding connections establishing)" or, as newer
\* pgbench prints it, "tps = 1500.25 (without initial connection time)"; the
\* latency line reads "latency average = 3.50 ms" or is not there.
TpsLines ==
    {[form |-> "excluding", whole |-> 1500, hundredths |-> 25],
     [form |-> "without", whole |-> 1500, hundredths |-> 25]}
LatencyLines ==
    {[form |-> "average", whole |-> 3, hundredths |-> 50],
     [form |-> "absent", whole |-> 0, hundredths |-> 0]}

MissingSummary ==
    [exists |-> FALSE,
     tps_line |-> [form |-> "without", whole |-> 0, hundredths |-> 0],
     latency_line |-> [form |-> "absent", whole |-> 0, hundredths |-> 0]]
SummaryContents ==
    {MissingSummary} \cup
    {[exists |-> TRUE, tps_line |-> t, latency_line |-> l] :
        t \in TpsLines, l \in LatencyLines}
CompleteSummary ==
    [exists |-> TRUE,
     tps_line |-> [form |-> "excluding", whole |-> 1500, hundredths |-> 25],
     latency_line |-> [form |-> "average", whole |-> 3, hundredths |-> 50]]

ResultsIdle ==
    /\ input_dir_exists = FALSE
    /\ csv_files = [f \in CsvNames |-> MissingCsv]
    /\ summary_files = [f \in SummaryNames |-> MissingSummary]
    /\ df_bulk_exact = None
    /\ df_bulk_hll = None
    /\ df_storage = None
    /\ df_hashing = None
    /\ pgbench_results = <<>>
    /\ plots_saved = {}
    /\ printed = {}

----------------------------------------------------------------------------
Init ==
    /\ union_exists \in BOOLEAN
    /\ exact_exists \in BOOLEAN
    /\ union_csv \in (IF union_exists THEN SeqsUpTo(UnionRows, MaxUnionTrials)
                                      ELSE {<<>>})
    /\ exact_csv \in (IF exact_exists THEN SeqsUpTo(ExactRows, MaxExactTrials)
                                      ELSE {<<>>})
    /\ pc = "start"
    /\ union_df = <<>>
    /\ exact_df = <<>>
    /\ union_stats = <<>>
    /\ exact_stats = <<>>
    /\ comparison_df = <<>>
    /\ comparison_csv = <<>>
    /\ efficiency_plot = <<>>
    /\ best_speed = <<>>
    /\ best_accuracy = <<>>
    /\ best_efficiency = <<>>
    /\ log = <<>>
    /\ CardinalityIdle
    /\ ResultsIdle

files == <<union_exists, exact_exists, union_csv, exact_csv>>

\* lines 25-35: read both raw tables, or report the missing file and exit(1)
LoadData ==
    /\ pc = "start"
    /\ IF union_exists /\ exact_exists
       THEN /\ union_df' = union_csv
            /\ exact_df' = exact_csv
            /\ log' = log \o <<[msg |-> "loading"], [msg |-> "loaded"]>>
            /\ pc' = "loaded"
       ELSE /\ UNCHANGED <<union_df, exact_df>>
            /\ log' = log \o <<[msg |-> "loading"], [msg |-> "missing_file"]>>
            /\ pc' = "exit_1"
    /\ UNCHANGED <<cardVars, resultsVars>>
    /\ UNCHANGED <<files, union_stats, exact_stats, comparison_df,
                   comparison_csv, efficiency_plot, best_speed, best_accuracy,
                   best_efficiency>>

\* lines 38-53: the two groupby aggregations.  Nothing checks for a table
\* without rows: its groupby has no groups and gives an empty table.
Aggregate ==
    /\ pc = "loaded"
    /\ union_stats' = AggregateUnionStats(union_df)
    /\ exact_stats' = AggregateExactStats(exact_df)
    /\ log' = Append(log, [msg |-> "aggregating"])
    /\ pc' = "aggregated"
    /\ UNCHANGED <<cardVars, resultsVars>>
    /\ UNCHANGED <<files, union_df, exact_df, comparison_df, comparison_csv,
                   efficiency_plot, best_speed, best_accuracy, best_efficiency>>

\* lines 55-64: join the aggregated tables and derive the metrics
Compare ==
    /\ pc = "aggregated"
    /\ comparison_df' = ComparisonTable(union_stats, exact_stats)
    /\ pc' = "compared"
    /\ UNCHANGED <<cardVars, resultsVars>>
    /\ UNCHANGED <<files, union_df, exact_df, union_stats, exact_stats,
                   comparison_csv, efficiency_plot, best_speed, best_accuracy,
                   best_efficiency, log>>

\* lines 66-68: persist the comparison table
Save ==
    /\ pc = "compared"
    /\ comparison_csv' = ToCsv(comparison_df)
    /\ log' = Append(log, [msg |-> "saved"])
    /\ pc' = "saved"
    /\ UNCHANGED <<cardVars, resultsVars>>
    /\ UNCHANGED <<files, union_df, exact_df, union_stats, exact_stats,
                   comparison_df, efficiency_plot, best_speed, best_accuracy,
                   best_efficiency>>

\* lines 71-383: the five figures.  The series of the efficiency chart are
\* taken from comparison_df; whether matplotlib and seaborn accept the data
\* they are given is decided outside the script, so rendering either
\* completes or raises.
Plot ==
    /\ pc = "saved"
    /\ efficiency_plot' = EfficiencySeries(comparison_df)
    /\ \E rendered \in BOOLEAN :
          IF rendered
          THEN /\ log' = Append(log, [msg |-> "plots_saved"])
               /\ pc' = "plotted"
          ELSE /\ log' = log
               /\ pc' = "crashed"
    /\ UNCHANGED <<cardVars, resultsVars>>
    /\ UNCHANGED <<files, union_df, exact_df, union_stats, exact_stats,
                   comparison_df, comparison_csv, best_speed, best_accuracy,
                   best_efficiency>>

\* lines 388-410: the overall figures that are printed
OverallMetrics(df) ==
    [msg |-> "overall",
     avg_speedup |-> ColMean(df, "speedup_factor"),
     max_speedup |-> ColMax(df, "speedup_factor"),
     min_speedup |-> ColMin(df, "speedup_factor"),
     avg_error |-> ColMean(df, "error_pct"),
     max_error |-> ColMax(df, "error_pct"),
     min_error |-> ColMin(df, "error_pct")]

\* lines 402-405: the query time figures
QueryTimeMetrics(df) ==
    [msg |-> "query_time",
     avg_union_time |-> ColMean(df, "union_time_ms"),
     avg_exact_time |-> ColMean(df, "exact_time_ms"),
     time_saved |->
         ColMean([i \in 1..Len(df) |->
                     [saved |-> FSub(df[i].exact_time_ms, df[i].union_time_ms)]],
                 "saved")]

\* lines 407-410: one line per entry of the fixed precision list, the mean
\* sketch size of the rows of that precision (NaN when there is none)
StorageByPrecision(df) ==
    [msg |-> "storage",
     parts |-> [k \in 1..Len(precisions) |->
                   [precision |-> precisions[k],
                    sketch_size_kb |->
                        ColMean(SelectSeq(df, LAMBDA r : r.precision = precisions[k]),
                                "sketch_size_kb")]]]

\* the figures printed before the best rows are selected
SummaryFigures(df) ==
    <<OverallMetrics(df), QueryTimeMetrics(df), StorageByPrecision(df)>>

\* lines 388-425: print the overall figures, then select the best rows.
\* idxmax / idxmin of a column without any non-NaN cell makes the selection
\* raise, and the script stops at that line.
Summary ==
    /\ pc = "plotted"
    /\ LET df == comparison_df
           okSpeed == NotNaIdx(df, "speedup_factor") # {}
           okAcc == okSpeed /\ NotNaIdx(df, "error_pct") # {}
           okEff == okAcc /\ NotNaIdx(df, "efficiency_score") # {}
       IN  /\ best_speed' =
                  IF okSpeed THEN <<df[IdxMax(df, "speedup_factor")]>> ELSE <<>>
           /\ best_accuracy' =
                  IF okAcc THEN <<df[IdxMin(df, "error_pct")]>> ELSE <<>>
           /\ best_efficiency' =
                  IF okEff THEN <<df[IdxMax(df, "efficiency_score")]>> ELSE <<>>
           /\ log' = IF okEff
                     THEN log \o SummaryFigures(df)
                              \o <<[msg |-> "best"], [msg |-> "complete"]>>
                     ELSE log \o SummaryFigures(df)
           /\ pc' = IF okEff THEN "done" ELSE "crashed"
    /\ UNCHANGED <<cardVars, resultsVars>>
    /\ UNCHANGED <<files, union_df, exact_df, union_stats, exact_stats,
                   comparison_df, comparison_csv, efficiency_plot>>

Next ==
    \/ LoadData
    \/ Aggregate
    \/ Compare
    \/ Save
    \/ Plot
    \/ Summary

Spec == Init /\ [][Next]_vars

----------------------------------------------------------------------------
(* src/plot_results_cardinality.py: main().                                *)

\* the state of union_plot.py apart from its position and its messages
unionState == <<files, union_df, exact_df, union_stats, exact_stats,
                comparison_df, comparison_csv, efficiency_plot, best_speed,
                best_accuracy, best_efficiency>>

UnionIdle ==
    /\ union_exists = FALSE
    /\ exact_exists = FALSE
    /\ union_csv = <<>>
    /\ exact_csv = <<>>
    /\ union_df = <<>>
    /\ exact_df = <<>>
    /\ union_stats = <<>>
    /\ exact_stats = <<>>
    /\ comparison_df = <<>>
    /\ comparison_csv = <<>>
    /\ efficiency_plot = <<>>
    /\ best_speed = <<>>
    /\ best_accuracy = <<>>
    /\ best_efficiency = <<>>

InitCardinality ==
    /\ pc = "card_main"
    /\ log = <<>>
    /\ card_exact_exists \in BOOLEAN
    /\ card_hll_exists \in BOOLEAN
    /\ card_exact_df = None
    /\ card_hll_df = None
    /\ card_outputs = {}
    /\ UnionIdle
    /\ ResultsIdle

\* The loading step with the fallback the script once had (line 259, now a
\* comment): synthetic tables stand in for the missing files.
CardinalityLoad_SampleFallback ==
    /\ pc = "card_main"
    /\ IF card_exact_exists /\ card_hll_exists
       THEN /\ card_exact_df' = DataFrame(<<"ok">>)
            /\ card_hll_df' = DataFrame(<<"ok">>)
            /\ log' = Append(log, [msg |-> "loaded"])
       ELSE /\ card_exact_df' = create_sample_data.exact_df
            /\ card_hll_df' = create_sample_data.hll_df
            /\ log' = Append(log, [msg |-> "using_sample_data"])
    /\ pc' = "card_loaded"
    /\ UNCHANGED <<card_exact_exists, card_hll_exists, card_outputs,
                   unionState, resultsVars>>

\* lines 246-259: read both CSV files; if either is not there, say so and
\* return.  create_sample_data() is not called.
CardinalityLoad ==
    /\ pc = "card_main"
    /\ IF card_exact_exists /\ card_hll_exists
       THEN /\ card_exact_df' = DataFrame(<<"ok">>)
            /\ card_hll_df' = DataFrame(<<"ok">>)
            /\ log' = Append(log, [msg |-> "loaded"])
            /\ pc' = "card_loaded"
       ELSE /\ UNCHANGED <<card_exact_df, card_hll_df>>
            /\ log' = Append(log, [msg |-> "csv_not_found"])
            /\ pc' = "card_returned"
    /\ UNCHANGED <<card_exact_exists, card_hll_exists, card_outputs,
                   unionState, resultsVars>>

\* lines 261-264: the three figures
CardinalityPlots ==
    /\ pc = "card_loaded"
    /\ card_outputs' = card_outputs \cup
           {"plot1_latency_comparison.png",
            "plot2_accuracy_storage_tradeoff.png",
            "plot3_speedup_vs_error.png"}
    /\ pc' = "card_plotted"
    /\ UNCHANGED <<card_exact_exists, card_hll_exists, card_exact_df,
                   card_hll_df, log, unionState, resultsVars>>

\* lines 266-273: the printed summary table and the closing messages
CardinalityTable ==
    /\ pc = "card_plotted"
    /\ card_outputs' = card_outputs \cup {"results_table"}
    /\ log' = Append(log, [msg |-> "all_plots_generated"])
    /\ pc' = "card_done"
    /\ UNCHANGED <<card_exact_exists, card_hll_exists, card_exact_df,
                   card_hll_df, unionState, resultsVars>>

\* Runs of union_plot.py on at most one trial per table, and runs of
\* plot_results_cardinality.py: the two scripts that stop on a missing file.
InitSources ==
    \/ /\ Init
       /\ Len(union_csv) <= 1
       /\ Len(exact_csv) <= 1
    \/ InitCardinality

NextSources ==
    \/ LoadData
    \/ Aggregate
    \/ Compare
    \/ Save
    \/ Plot
    \/ Summary
    \/ CardinalityLoad
    \/ CardinalityPlots
    \/ CardinalityTable

SpecSources == InitSources /\ [][NextSources]_vars

----------------------------------------------------------------------------
(* src/plot_results.py.                                                    *)

HasRaggedLine(file) == \E i \in 1..Len(file.lines) : file.lines[i] = "ragged"

\* load_data(base_path, filename), lines 32-53: None for a file that is not
\* there; None as well when read_csv raises, which it does on a line with
\* more fields than the header; otherwise the table read_csv returns, which
\* has one row per data line (a field that is not a number stays as text).
load_data(file) ==
    IF ~file.exists THEN None
    ELSE IF HasRaggedLine(file) THEN None
    ELSE DataFrame(file.lines)

\* what load_data prints for the file
load_data_printed(name, file) ==
    IF ~file.exists THEN {[msg |-> "could_not_find", file |-> name]}
    ELSE IF HasRaggedLine(file) THEN {[msg |-> "error_reading", file |-> name]}
    ELSE {}

\* re.search(r"tps = (\d+\.\d+) \(excluding", content): the digits of the
\* match, or nothing
tps_match(file) ==
    IF file.tps_line.form = "excluding"
    THEN <<[whole |-> file.tps_line.whole,
            hundredths |-> file.tps_line.hundredths]>>
    ELSE <<>>

\* re.search(r"latency average = (\d+\.\d+) ms", content)
lat_match(file) ==
    IF file.latency_line.form = "average"
    THEN <<[whole |-> file.latency_line.whole,
            hundredths |-> file.latency_line.hundredths]>>
    ELSE <<>>

\* float("1500.25")
float(digits) == Fin(digits.whole * 100 + digits.hundredths, 100)

\* The parser with "and" in place of "or" at line 85: a summary with one of
\* the two figures still gives an entry.
parse_pgbench_summary_Partial(file) ==
    IF ~file.exists THEN <<>>
    ELSE IF tps_match(file) = <<>> /\ lat_match(file) = <<>> THEN <<>>
    ELSE <<[tps |-> IF tps_match(file) = <<>> THEN NaN
                    ELSE float(tps_match(file)[1]),
            latency |-> IF lat_match(file) = <<>> THEN NaN
                        ELSE float(lat_match(file)[1])]>>

\* parse_pgbench_summary(base_path, filename), lines 56-95: <<>> stands for
\* None, a one-element sequence for the dictionary that is returned.
parse_pgbench_summary(file) ==
    IF ~file.exists THEN <<>>
    ELSE IF tps_match(file) = <<>> \/ lat_match(file) = <<>> THEN <<>>
    ELSE <<[tps |-> float(tps_match(file)[1]),
            latency |-> float(lat_match(file)[1])]>>

parse_pgbench_summary_printed(name, file) ==
    IF ~file.exists THEN {[msg |-> "could_not_find", file |-> name]}
    ELSE IF tps_match(file) = <<>> \/ lat_match(file) = <<>>
         THEN {[msg |-> "could_not_parse", file |-> name]}
    ELSE {}

\* the aggregations of the plot functions need numbers: the mean of a column
\* that holds text raises
Numeric(df) == \A i \in 1..Len(df.lines) : df.lines[i] = "ok"

resultsFiles == <<input_dir_exists, csv_files, summary_files>>
resultsFrames == <<df_bulk_exact, df_bulk_hll, df_storage, df_hashing>>

\* A run on a directory whose CSV files are well formed or missing; the
\* pgbench summaries are missing, complete, or lack one of the two lines.
InitResults ==
    /\ pc = "results_main"
    /\ log = <<>>
    /\ input_dir_exists \in BOOLEAN
    /\ csv_files \in (IF input_dir_exists
                      THEN [CsvNames -> {MissingCsv, WellFormedCsv}]
                      ELSE {[f \in CsvNames |-> MissingCsv]})
    /\ summary_files \in (IF input_dir_exists
                          THEN [SummaryNames -> SummaryContents]
                          ELSE {[f \in SummaryNames |-> MissingSummary]})
    /\ df_bulk_exact = None
    /\ df_bulk_hll = None
    /\ df_storage = None
    /\ df_hashing = None
    /\ pgbench_results = <<>>
    /\ plots_saved = {}
    /\ printed = {}
    /\ UnionIdle
    /\ CardinalityIdle

\* A run on a directory whose CSV files may hold a malformed line; the
\* pgbench summaries are complete.
InitMalformed ==
    /\ pc = "results_main"
    /\ log = <<>>
    /\ input_dir_exists = TRUE
    /\ csv_files \in [CsvNames ->
                         {MissingCsv, WellFormedCsv, TextFieldCsv, RaggedCsv}]
    /\ summary_files = [f \in SummaryNames |-> CompleteSummary]
    /\ df_bulk_exact = None
    /\ df_bulk_hll = None
    /\ df_storage = None
    /\ df_hashing = None
    /\ pgbench_results = <<>>
    /\ plots_saved = {}
    /\ printed = {}
    /\ UnionIdle
    /\ CardinalityIdle

\* main(), lines 259-267: the directory given on the command line
main_input_dir ==
    /\ pc = "results_main"
    /\ IF input_dir_exists
       THEN /\ pc' = "results_loading"
            /\ printed' = printed \cup {[msg |-> "saving_plots_to", file |-> ""]}
       ELSE /\ pc' = "results_returned"
            /\ printed' = printed \cup
                   {[msg |-> "input_directory_not_found", file |-> ""]}
    /\ UNCHANGED <<resultsFiles, resultsFrames, pgbench_results, plots_saved,
                   log, unionState, cardVars>>

\* main(), lines 269-275: the four load_data calls
main_load_csv ==
    /\ pc = "results_loading"
    /\ df_bulk_exact' = load_data(csv_files["01_results_bulk_exact.csv"])
    /\ df_bulk_hll' = load_data(csv_files["01_results_bulk_hll.csv"])
    /\ df_storage' = load_data(csv_files["02_results_storage.csv"])
    /\ df_hashing' = load_data(csv_files["03_results_hashing.csv"])
    /\ printed' = printed \cup
           UNION {load_data_printed(f, csv_files[f]) : f \in CsvNames}
    /\ pc' = "results_parsing"
    /\ UNCHANGED <<resultsFiles, pgbench_results, plots_saved, log,
                   unionState, cardVars>>

\* main(), lines 277-288: one entry per summary that parses
main_parse_pgbench ==
    /\ pc = "results_parsing"
    /\ LET parsed(t) == parse_pgbench_summary(summary_files[test_files[t]])
       IN  pgbench_results' =
               [t \in {u \in TestNames : parsed(u) # <<>>} |-> parsed(t)[1]]
    /\ printed' = printed \cup
           UNION {parse_pgbench_summary_printed(f, summary_files[f]) :
                      f \in SummaryNames}
    /\ pc' = "results_bulk_agg"
    /\ UNCHANGED <<resultsFiles, resultsFrames, plots_saved, log, unionState,
                   cardVars>>

\* The guard of plot_bulk_agg with "and" in place of "or": the charts are
\* drawn as soon as one of the two tables is there.
BulkAggSkipped_NeitherLoaded(df_exact, df_hll) ==
    df_exact.is_none /\ df_hll.is_none

\* plot_bulk_agg, lines 104-106: if df_exact is None or df_hll is None
BulkAggSkipped(df_exact, df_hll) == df_exact.is_none \/ df_hll.is_none

\* plot_bulk_agg(df_bulk_exact, df_bulk_hll, plot_path), lines 98-147
plot_bulk_agg ==
    /\ pc = "results_bulk_agg"
    /\ IF BulkAggSkipped(df_bulk_exact, df_bulk_hll)
       THEN /\ printed' = printed \cup
                   {[msg |-> "skipping", file |-> "plot_bulk_agg"]}
            /\ UNCHANGED plots_saved
            /\ pc' = "results_storage"
       ELSE IF Numeric(df_bulk_exact) /\ Numeric(df_bulk_hll)
       THEN /\ plots_saved' = plots_saved \cup
                   {"1_bulk_agg_speed.png", "2_bulk_agg_error.png"}
            /\ UNCHANGED printed
            /\ pc' = "results_storage"
       ELSE /\ UNCHANGED <<plots_saved, printed>>
            /\ pc' = "results_crashed"
    /\ UNCHANGED <<resultsFiles, resultsFrames, pgbench_results, log,
                   unionState, cardVars>>

\* plot_storage(df_storage, plot_path), lines 150-175
plot_storage ==
    /\ pc = "results_storage"
    /\ IF df_storage.is_none
       THEN /\ printed' = printed \cup
                   {[msg |-> "skipping", file |-> "plot_storage"]}
            /\ UNCHANGED plots_saved
            /\ pc' = "results_hashing"
       ELSE IF Numeric(df_storage)
       THEN /\ plots_saved' = plots_saved \cup {"3_storage_footprint.png"}
            /\ UNCHANGED printed
            /\ pc' = "results_hashing"
       ELSE /\ UNCHANGED <<plots_saved, printed>>
            /\ pc' = "results_crashed"
    /\ UNCHANGED <<resultsFiles, resultsFrames, pgbench_results, log,
                   unionState, cardVars>>

\* plot_hashing(df_hashing, plot_path), lines 177-199
plot_hashing ==
    /\ pc = "results_hashing"
    /\ IF df_hashing.is_none
       THEN /\ printed' = printed \cup
                   {[msg |-> "skipping", file |-> "plot_hashing"]}
            /\ UNCHANGED plots_saved
            /\ pc' = "results_pgbench"
       ELSE IF Numeric(df_hashing)
       THEN /\ plots_saved' = plots_saved \cup {"4_hashing_overhead.png"}
            /\ UNCHANGED printed
            /\ pc' = "results_pgbench"
       ELSE /\ UNCHANGED <<plots_saved, printed>>
            /\ pc' = "results_crashed"
    /\ UNCHANGED <<resultsFiles, resultsFrames, pgbench_results, log,
                   unionState, cardVars>>

\* df["test_name"].str.contains("insert") and .str.contains("read")
InsertTests == {"low_card_insert", "high_card_insert"}
ReadTests == {"read_cardinality", "read_union"}

\* plot_pgbench_results(pgbench_results, plot_path), lines 202-242, and the
\* closing messages of main(), lines 296-299
plot_pgbench_results ==
    /\ pc = "results_pgbench"
    /\ IF DOMAIN pgbench_results = {}
       THEN /\ printed' = printed \cup
                   {[msg |-> "skipping", file |-> "plot_pgbench_results"],
                    [msg |-> "plot_generation_complete", file |-> ""]}
            /\ UNCHANGED plots_saved
       ELSE /\ plots_saved' = plots_saved \cup
                   (IF DOMAIN pgbench_results \cap InsertTests # {}
                    THEN {"5_insert_tps.png"} ELSE {}) \cup
                   (IF DOMAIN pgbench_results \cap ReadTests # {}
                    THEN {"6_read_latency.png"} ELSE {})
            /\ printed' = printed \cup
                   {[msg |-> "plot_generation_complete", file |-> ""]}
    /\ pc' = "results_done"
    /\ UNCHANGED <<resultsFiles, resultsFrames, pgbench_results, log,
                   unionState, cardVars>>

NextResults ==
    \/ main_input_dir
    \/ main_load_csv
    \/ main_parse_pgbench
    \/ plot_bulk_agg
    \/ plot_storage
    \/ plot_hashing
    \/ plot_pgbench_results

SpecResults == InitResults /\ [][NextResults]_vars

SpecMalformed == InitMalformed /\ [][NextResults]_vars

----------------------------------------------------------------------------
(* Properties.                                                             *)

RowKey(r) == <<r.precision, r.num_days>>

Aggregated == pc \notin {"start", "exit_1", "loaded"}
Compared == Aggregated /\ pc # "aggregated"

UnionWindows == {union_stats[i].num_days : i \in DOMAIN union_stats}
ExactWindows == {exact_stats[i].num_days : i \in DOMAIN exact_stats}

RowsWithKey(df, k) == {i \in DOMAIN df : RowKey(df[i]) = k}

\* the keys of the approximate table whose window occurs in the exact table
MatchedKeys ==
    {RowKey(union_stats[i]) :
        i \in {j \in DOMAIN union_stats : union_stats[j].num_days \in ExactWindows}}

\* C1: the comparison table has exactly one row for each (precision,
\* window_size) group of the approximate table whose window_size occurs in the
\* exact table, no row for any other key, and as many rows as such keys.
C1_InnerJoinOnWindow ==
    Compared =>
        /\ \A k \in MatchedKeys : Cardinality(RowsWithKey(comparison_df, k)) = 1
        /\ \A i \in DOMAIN comparison_df : RowKey(comparison_df[i]) \in MatchedKeys
        /\ Len(comparison_df) = Cardinality(MatchedKeys)

\* one approximate group is joined, another has no exact partner and is dropped
C1_Witness ==
    /\ pc = "compared"
    /\ Len(union_stats) = 2
    /\ Len(exact_stats) = 1
    /\ Len(comparison_df) = 1

ReportedSkipped ==
    {i \in DOMAIN log : log[i].msg \in {"missing_exact", "missing_approx"}}

\* C2: every window_size present in only one aggregated table is reported as
\* skipped: the number of reported skipped keys is the number of windows only
\* in the approximate table plus the number only in the exact table.
C2_SkippedKeysReported ==
    Compared =>
        Cardinality(ReportedSkipped) =
            Cardinality(UnionWindows \ ExactWindows)
                + Cardinality(ExactWindows \ UnionWindows)

\* a field carrying a DegenerateMetric marker instead of a float
IsMarker(x) == ~IsFin(x) /\ ~IsInf(x) /\ ~IsNaN(x)

\* C3: error_absolute = |avg_estimate - exact_count| and error_pct =
\* error_absolute / exact_count * 100; with exact_count = 0 the error_pct is a
\* DegenerateMetric marker, never 0, infinity or NaN.
C3_ErrorPctDegenerate ==
    Compared =>
        \A i \in DOMAIN comparison_df :
            LET r == comparison_df[i]
            IN  /\ \/ r.error_absolute = FSub(r.avg_estimate, r.exact_count)
                   \/ r.error_absolute = FSub(r.exact_count, r.avg_estimate)
                /\ ~FLess(r.error_absolute, F(0))
                /\ IF r.exact_count # F(0)
                   THEN FMul(r.error_pct, r.exact_count)
                            = FMul(r.error_absolute, F(Percent))
                   ELSE IsMarker(r.error_pct)

RECURSIVE IntSum(_)
IntSum(s) == IF s = <<>> THEN 0 ELSE Head(s) + IntSum(Tail(s))

UnionTimes(k) ==
    LET g == SelectSeq(union_df, LAMBDA t : <<t.precision, t.num_days>> = k)
    IN  [i \in 1..Len(g) |-> g[i].query_time_ms]

ExactTimes(n) ==
    LET g == SelectSeq(exact_df, LAMBDA t : t.num_days = n)
    IN  [i \in 1..Len(g) |-> g[i].query_time_ms]

\* m is the mean of the integers xs
IsMeanOf(m, xs) == IsFin(m) /\ m.n * Len(xs) = m.d * IntSum(xs)

\* C4: speedup_factor = exact_time_ms / union_time_ms, both times being the
\* per-group means of the trial query times; with union_time_ms = 0 the
\* speedup_factor is a DegenerateMetric marker, never 0 or infinity.
C4_SpeedupDegenerate ==
    Compared =>
        \A i \in DOMAIN comparison_df :
            LET r == comparison_df[i]
            IN  /\ IsMeanOf(r.union_time_ms, UnionTimes(RowKey(r)))
                /\ IsMeanOf(r.exact_time_ms, ExactTimes(r.num_days))
                /\ IF r.union_time_ms # F(0)
                   THEN FMul(r.speedup_factor, r.union_time_ms) = r.exact_time_ms
                   ELSE IsMarker(r.speedup_factor)

\* C5: efficiency_score = speedup_factor / error_pct; with error_pct = 0 it is
\* a DegenerateMetric marker, and no infinite or NaN efficiency_score reaches
\* the persisted table, the efficiency chart or the best-efficiency selection.
C5_NoInfiniteEfficiency ==
    /\ Compared =>
          \A i \in DOMAIN comparison_df :
              LET r == comparison_df[i]
              IN  IF r.error_pct = F(0)
                  THEN IsMarker(r.efficiency_score)
                  ELSE IsFin(r.error_pct) /\ IsFin(r.speedup_factor) =>
                          FMul(r.efficiency_score, r.error_pct) = r.speedup_factor
    /\ \A i \in DOMAIN comparison_csv :
          comparison_csv[i].efficiency_score.text \notin {"", "inf"}
    /\ \A k \in DOMAIN efficiency_plot : \A i \in DOMAIN efficiency_plot[k] :
          IsFin(efficiency_plot[k][i].efficiency_score)
    /\ \A i \in DOMAIN best_efficiency : IsFin(best_efficiency[i].efficiency_score)

UnionInputKeys == {<<union_df[i].precision, union_df[i].num_days>> : i \in DOMAIN union_df}
ExactInputKeys == {exact_df[i].num_days : i \in DOMAIN exact_df}

\* C6: each aggregated table has exactly one row per distinct group-key value
\* of its input ((precision, window_size) for the approximate trials,
\* window_size for the exact ones) and no row for a key absent from the input.
C6_OneRowPerGroupKey ==
    Aggregated =>
        /\ Len(union_stats) = Cardinality(UnionInputKeys)
        /\ \A k \in UnionInputKeys : Cardinality(RowsWithKey(union_stats, k)) = 1
        /\ \A i \in DOMAIN union_stats : RowKey(union_stats[i]) \in UnionInputKeys
        /\ Len(exact_stats) = Cardinality(ExactInputKeys)
        /\ \A n \in ExactInputKeys :
              Cardinality({i \in DOMAIN exact_stats : exact_stats[i].num_days = n}) = 1
        /\ \A i \in DOMAIN exact_stats : exact_stats[i].num_days \in ExactInputKeys

\* two approximate trials of one key collapse into one row while two exact
\* trials of different windows stay apart
C6_Witness ==
    /\ pc = "aggregated"
    /\ Len(union_df) = 2
    /\ Len(union_stats) = 1
    /\ Len(exact_df) = 2
    /\ Len(exact_stats) = 2

IntSquares(xs) == [i \in 1..Len(xs) |-> xs[i] * xs[i]]

\* std is the sample standard deviation (n-1 denominator) of the integers xs:
\* std^2 * n * (n-1) = n * sum(x^2) - sum(x)^2
IsSampleStdOf(std, xs) ==
    /\ std.k = "sqrt"
    /\ std.n * Len(xs) * (Len(xs) - 1)
           = std.d * (Len(xs) * IntSum(IntSquares(xs)) - IntSum(xs) * IntSum(xs))

C8_EmptyInputRejected ==
    (union_exists /\ exact_exists /\ (union_csv = <<>> \/ exact_csv = <<>>)) =>
        pc \in {"start", "loaded", "empty_input_error"}

Ascending(df, Key(_)) ==
    \A i, j \in DOMAIN df : i < j => KeyLess(Key(df[i]), Key(df[j]))

WindowKey(r) == <<r.num_days, 0>>

\* C9: the comparison table is in ascending order of (precision,
\* window_size) and each aggregated table in ascending order of its group key,
\* whatever the order of the trials in the raw inputs.
C9_AscendingOrder ==
    /\ Aggregated => Ascending(union_stats, RowKey) /\ Ascending(exact_stats, WindowKey)
    /\ Compared => Ascending(comparison_df, RowKey)

\* both raw inputs list their trials in descending key order and two rows
\* are joined
C9_Witness ==
    /\ pc = "compared"
    /\ Len(comparison_df) = 2
    /\ Len(union_df) = 2
    /\ KeyLess(<<union_df[2].precision, union_df[2].num_days>>,
               <<union_df[1].precision, union_df[1].num_days>>)
    /\ union_df[1].num_days # union_df[2].num_days
    /\ Len(exact_df) = 2
    /\ exact_df[2].num_days < exact_df[1].num_days

Larger(x, y) == FLess(y, x)
Smaller(x, y) == FLess(x, y)

\* r holds the extreme value of column c among the rows with a finite value,
\* ties going to the smallest window_size, then the smallest precision
ClaimedBest(df, c, r, Better(_, _)) ==
    (\E j \in DOMAIN df : IsFin(df[j][c])) =>
        /\ IsFin(r[c])
        /\ \A j \in DOMAIN df : IsFin(df[j][c]) =>
              /\ ~Better(df[j][c], r[c])
              /\ df[j][c] = r[c] =>
                    \/ <<r.num_days, r.precision>> = <<df[j].num_days, df[j].precision>>
                    \/ KeyLess(<<r.num_days, r.precision>>,
                               <<df[j].num_days, df[j].precision>>)

SelectedBest(df, c, r, Better(_, _)) ==
    /\ \E j \in DOMAIN df : df[j] = r
    /\ ~IsNaN(r[c])
    /\ \A j \in DOMAIN df : ~IsNaN(df[j][c]) =>
          /\ ~Better(df[j][c], r[c])
          /\ df[j][c] = r[c] => RowKey(r) = RowKey(df[j]) \/ KeyLess(RowKey(r), RowKey(df[j]))

ErrorDefined(df) == SelectSeq(df, LAMBDA r : r.exact_count # F(0))
SpeedupDefined(df) == SelectSeq(df, LAMBDA r : r.union_time_ms # F(0))

ReportsExclusions(m) == "excluded" \in DOMAIN m

\* C11: every summary reduction leaves out the rows whose reduced field is
\* degenerate and reports how many it left out; no degenerate value enters a
\* statistic as 0, infinity or NaN.
C11_DegenerateExcluded ==
    \A i \in DOMAIN log : log[i].msg = "overall" =>
        /\ ReportsExclusions(log[i])
        /\ ErrorDefined(comparison_df) # <<>> =>
              /\ log[i].avg_error = ColMean(ErrorDefined(comparison_df), "error_pct")
              /\ log[i].max_error = ColMax(ErrorDefined(comparison_df), "error_pct")
        /\ SpeedupDefined(comparison_df) # <<>> =>
              /\ log[i].avg_speedup
                     = ColMean(SpeedupDefined(comparison_df), "speedup_factor")
              /\ log[i].max_speedup
                     = ColMax(SpeedupDefined(comparison_df), "speedup_factor")
        /\ \A i2 \in DOMAIN best_speed : best_speed[i2].union_time_ms # F(0)
        /\ \A i2 \in DOMAIN best_accuracy : best_accuracy[i2].exact_count # F(0)

\* C17: two comparison rows of the same window carry the same exact_count and
\* exact_time_ms, those of the aggregated exact row of that window, whatever
\* their precision; the approximate side, precision included, is carried
\* through unchanged.
C17_SharedExactBaseline ==
    Compared =>
        /\ \A i \in DOMAIN comparison_df :
              LET r == comparison_df[i]
              IN  /\ \E e \in DOMAIN exact_stats :
                        /\ exact_stats[e].num_days = r.num_days
                        /\ exact_stats[e].exact_count = r.exact_count
                        /\ exact_stats[e].exact_time_ms = r.exact_time_ms
                  /\ \E u \in DOMAIN union_stats :
                        /\ RowKey(union_stats[u]) = RowKey(r)
                        /\ union_stats[u].avg_estimate = r.avg_estimate
                        /\ union_stats[u].union_time_ms = r.union_time_ms
        /\ \A i, j \in DOMAIN comparison_df :
              comparison_df[i].num_days = comparison_df[j].num_days =>
                  /\ comparison_df[i].exact_count = comparison_df[j].exact_count
                  /\ comparison_df[i].exact_time_ms = comparison_df[j].exact_time_ms

\* two precisions share the exact row of one window while the exact table
\* also holds another window with other values
C17_Witness ==
    /\ pc = "compared"
    /\ Len(comparison_df) = 2
    /\ comparison_df[1].num_days = comparison_df[2].num_days
    /\ comparison_df[1].precision # comparison_df[2].precision
    /\ Len(exact_stats) = 2
    /\ exact_stats[1].exact_count # exact_stats[2].exact_count

UnionBytes(k) ==
    LET g == SelectSeq(union_df, LAMBDA t : <<t.precision, t.num_days>> = k)
    IN  [i \in 1..Len(g) |-> g[i].total_sketch_size_bytes]

UnionEstimates(k) ==
    LET g == SelectSeq(union_df, LAMBDA t : <<t.precision, t.num_days>> = k)
    IN  [i \in 1..Len(g) |-> g[i].estimated_count]

IsMaxOf(m, xs) ==
    /\ \E i \in DOMAIN xs : m = F(xs[i])
    /\ \A i \in DOMAIN xs : ~FLess(m, F(xs[i]))

KbOfBytes ==
    Compared =>
        \A i \in DOMAIN comparison_df :
            FMul(comparison_df[i].sketch_size_kb, F(KB))
                = comparison_df[i].total_sketch_bytes

\* C18 as stated: the aggregated sketch size of a group is the mean of the
\* sketch-byte values of its trials, as the estimate is the mean of the
\* estimates, and sketch_size_kb is that value divided by 1024.
C18_SketchSizeIsMean ==
    /\ Aggregated =>
          \A i \in DOMAIN union_stats :
              /\ IsMeanOf(union_stats[i].total_sketch_bytes,
                          UnionBytes(RowKey(union_stats[i])))
              /\ IsMeanOf(union_stats[i].avg_estimate,
                          UnionEstimates(RowKey(union_stats[i])))
    /\ KbOfBytes

\* C18, amended: the aggregated sketch size of a group is the maximum of the
\* sketch-byte values of its trials (the estimate is the mean of the
\* estimates), and sketch_size_kb is that value divided by 1024.
C18_SketchSizeIsMax ==
    /\ Aggregated =>
          \A i \in DOMAIN union_stats :
              /\ IsMaxOf(union_stats[i].total_sketch_bytes,
                         UnionBytes(RowKey(union_stats[i])))
              /\ IsMeanOf(union_stats[i].avg_estimate,
                          UnionEstimates(RowKey(union_stats[i])))
    /\ KbOfBytes

\* a joined group of two trials, the smaller sketch first
C18_Witness ==
    /\ pc = "compared"
    /\ Len(comparison_df) = 1
    /\ LET b == UnionBytes(RowKey(comparison_df[1]))
       IN  Len(b) = 2 /\ b[1] < b[2]

PrecisionsPresent == {comparison_df[i].precision : i \in DOMAIN comparison_df}

\* C19: the by-precision summary has exactly one partition per precision
\* present in the comparison rows, in ascending order, each reduced over the
\* rows of that precision; none is omitted and none is made for an absent one.
C19_PartitionPerPrecision ==
    \A i \in DOMAIN log : log[i].msg = "storage" =>
        LET parts == log[i].parts
        IN  /\ {parts[k].precision : k \in DOMAIN parts} = PrecisionsPresent
            /\ \A k, l \in DOMAIN parts : k < l => parts[k].precision < parts[l].precision
            /\ \A k \in DOMAIN parts :
                  parts[k].sketch_size_kb =
                      ColMean(SelectSeq(comparison_df,
                                        LAMBDA r : r.precision = parts[k].precision),
                              "sketch_size_kb")

\* the rows that fall into one cell of the precision-by-window pivot
PivotCell(p, n) ==
    {i \in DOMAIN comparison_df :
        comparison_df[i].precision = p /\ comparison_df[i].num_days = n}

\* C20: the comparison table never holds two rows with the same (precision,
\* window_size), so every cell of the heatmap pivot gets at most one value.
C20_UniqueComparisonKeys ==
    Compared =>
        /\ \A i, j \in DOMAIN comparison_df :
              i # j => RowKey(comparison_df[i]) # RowKey(comparison_df[j])
        /\ \A p \in Precisions, n \in Days : Cardinality(PivotCell(p, n)) <= 1

\* both raw tables repeat one key and the join still has a single row
C20_Witness ==
    /\ pc = "compared"
    /\ Len(union_df) = 2
    /\ Cardinality(UnionInputKeys) = 1
    /\ Len(exact_df) = 2
    /\ exact_df[1].num_days = exact_df[2].num_days
    /\ exact_df[1].query_time_ms # exact_df[2].query_time_ms
    /\ Len(comparison_df) = 1

----------------------------------------------------------------------------
(* Missing and malformed sources.                                          *)

UnionStarted ==
    pc \in {"loaded", "aggregated", "compared", "saved", "plotted", "crashed",
            "done", "exit_1"}
CardinalityStarted ==
    pc \in {"card_loaded", "card_plotted", "card_done", "card_returned"}

ResultsOrder ==
    <<"results_main", "results_loading", "results_parsing", "results_bulk_agg",
      "results_storage", "results_hashing", "results_pgbench", "results_done">>

Position(label) == CHOOSE i \in DOMAIN ResultsOrder : ResultsOrder[i] = label

\* main() of plot_results.py has got to the given position or beyond it
Reached(label) ==
    /\ \E i \in DOMAIN ResultsOrder : ResultsOrder[i] = pc
    /\ Position(pc) >= Position(label)

Present(f) == csv_files[f].exists

\* a summary file that is there and holds both lines in the expected form
Extractable(file) ==
    /\ file.exists
    /\ file.tps_line.form = "excluding"
    /\ file.latency_line.form = "average"

Said(m, f) == [msg |-> m, file |-> f] \in printed

Shown(line) == FAdd(F(line.whole), FDiv(F(line.hundredths), F(100)))

\* C14: a test has an entry exactly when its summary file is there and both
\* lines have the expected form; the entry then holds both figures of that
\* file.  No entry depends on any other file.
C14_EntryNeedsBothPatterns ==
    Reached("results_bulk_agg") =>
        /\ DOMAIN pgbench_results \subseteq TestNames
        /\ \A t \in TestNames :
              LET file == summary_files[test_files[t]]
              IN  /\ t \in DOMAIN pgbench_results <=> Extractable(file)
                  /\ t \in DOMAIN pgbench_results =>
                        /\ DOMAIN pgbench_results[t] = {"tps", "latency"}
                        /\ pgbench_results[t].tps = Shown(file.tps_line)
                        /\ pgbench_results[t].latency = Shown(file.latency_line)
                        /\ IsFin(pgbench_results[t].tps)
                        /\ IsFin(pgbench_results[t].latency)

\* one summary lacks the latency line, another lacks the expected tps line,
\* a third is complete: only the third has an entry
C14_Witness ==
    /\ Reached("results_bulk_agg")
    /\ \E t, u, v \in TestNames :
          /\ summary_files[test_files[t]].exists
          /\ summary_files[test_files[t]].tps_line.form = "excluding"
          /\ summary_files[test_files[t]].latency_line.form = "absent"
          /\ summary_files[test_files[u]].exists
          /\ summary_files[test_files[u]].tps_line.form = "without"
          /\ summary_files[test_files[u]].latency_line.form = "average"
          /\ Extractable(summary_files[test_files[v]])
          /\ DOMAIN pgbench_results = {v}

FrameOf(f) ==
    CASE f = "01_results_bulk_exact.csv" -> df_bulk_exact
      [] f = "01_results_bulk_hll.csv" -> df_bulk_hll
      [] f = "02_results_storage.csv" -> df_storage
      [] f = "03_results_hashing.csv" -> df_hashing

WellFormedLines(file) == SelectSeq(file.lines, LAMBDA l : l = "ok")

\* C15: of a file that holds malformed lines the well-formed lines are
\* loaded, the malformed ones are left out and their number is reported, and
\* the run goes on to its end.
C15_MalformedRowDroppedAndCounted ==
    /\ pc # "results_crashed"
    /\ Reached("results_parsing") =>
          \A f \in CsvNames :
              Present(f) =>
                  /\ ~FrameOf(f).is_none
                  /\ FrameOf(f).lines = WellFormedLines(csv_files[f])
                  /\ Len(WellFormedLines(csv_files[f])) < Len(csv_files[f].lines)
                        => Said("rows_dropped", f)
====
